---- MODULE Spec2Model ----
(***************************************************************************)
(* Model of the forecast service of shopify-forecast-assistant.            *)
(*                                                                         *)
(* Two versions of server.js are modelled side by side; `variant` says     *)
(* which one is running:                                                   *)
(*   "clamp"    src/server.js          one fetch, clamp at 50, top 12      *)
(*   "seasonal" src/unnamed/part_001   two fetches, month filter, top 20   *)
(*                                                                         *)
(* Representation of JavaScript values:                                    *)
(*   - a number field that is absent (undefined) is the value Undefined;   *)
(*   - an absent string field is "" (both are falsy and only read by ||);  *)
(*   - a model id n < BigIdFrom is the JS number n, a model id             *)
(*     n >= BigIdFrom is the JS number n * 10^10 (a Shopify-sized id,      *)
(*     which is no array index);                                           *)
(*   - an object used as a map is the sequence of its entries in           *)
(*     insertion order; Object.entries reorders it as the language does.   *)
(***************************************************************************)
EXTENDS Integers, Sequences, FiniteSets, TLC

VARIABLES variant, webhookUrl, now, store, req, pc,
          recentFetch, seasonalFetch, fetchCalls,
          recentOrders, seasonalOrders,
          agg, forecastItems, cartUrl,
          webhook, warnings, response

vars == <<variant, webhookUrl, now, store, req, pc,
          recentFetch, seasonalFetch, fetchCalls,
          recentOrders, seasonalOrders,
          agg, forecastItems, cartUrl,
          webhook, warnings, response>>

----------------------------------------------------------------------------
(* Program constants                                                       *)

TOP_ITEMS == 20
TopNClamp == 12
RecentMonths == 6
SeasonalYears == 2
MaxQtyClamp == 50
InternalError == 500
BadRequest == 400
HttpOk == 200

(* Bounds of the model                                                     *)

\* the most line items a store of the forecast pipeline's inputs holds in all
MaxLineItems == 2

----------------------------------------------------------------------------
(* JavaScript values                                                       *)

Undefined == 0 - 1

BigIdFrom == 1000

\* x is truthy as a number: not undefined, not 0
Truthy(x) == x # Undefined /\ x # 0

\* a || b on numbers
OrNum(a, b) == IF Truthy(a) THEN a ELSE b

\* a || b on strings ("" and undefined are falsy)
OrStr(a, b) == IF a # "" THEN a ELSE b

Digit == <<"0", "1", "2", "3", "4", "5", "6", "7", "8", "9">>

RECURSIVE Decimal(_)
Decimal(n) ==
  IF n < 10 THEN Digit[n + 1] ELSE Decimal(n \div 10) \o Digit[(n % 10) + 1]

\* String(x) for x a number or undefined
String(x) ==
  IF x = Undefined THEN "undefined"
  ELSE IF x >= BigIdFrom THEN Decimal(x) \o "0000000000"
  ELSE Decimal(x)

\* Math.round(n / d) for n >= 0, d > 0: halves round up
MathRound(n, d) == (2 * n + d) \div (2 * d)

Min(a, b) == IF a < b THEN a ELSE b

\* (no cut)
SliceAll(seq, n) == seq

\* seq.slice(0, n)
Slice(seq, n) == SubSeq(seq, 1, Min(n, Len(seq)))

----------------------------------------------------------------------------
(* Objects used as maps                                                    *)

\* position of key in the map, 0 when absent
MapIndex(map, key) ==
  IF \E i \in 1..Len(map) : map[i].key = key
  THEN CHOOSE i \in 1..Len(map) : map[i].key = key
  ELSE 0

MapHas(map, key) == MapIndex(map, key) # 0

MapGet(map, key) == map[MapIndex(map, key)]

\* the keys that are array indices come first, in ascending numeric order,
\* then the other keys in insertion order
RECURSIVE InsertAscending(_, _)
InsertAscending(sorted, e) ==
  IF sorted = <<>> THEN <<e>>
  ELSE IF e.num < Head(sorted).num THEN <<e>> \o sorted
  ELSE <<Head(sorted)>> \o InsertAscending(Tail(sorted), e)

RECURSIVE SortAscending(_)
SortAscending(seq) ==
  IF seq = <<>> THEN <<>>
  ELSE InsertAscending(SortAscending(SubSeq(seq, 1, Len(seq) - 1)), seq[Len(seq)])

IsIndexEntry(e) == e.num # Undefined /\ e.num < BigIdFrom

IsStringEntry(e) == ~IsIndexEntry(e)

ObjectEntries(map) ==
  SortAscending(SelectSeq(map, IsIndexEntry)) \o SelectSeq(map, IsStringEntry)

----------------------------------------------------------------------------
(* Helpers: time windows and the order source                              *)

\* time is counted in months; getMonth() of a date
GetMonth(t) == t % 12

isoMonthsAgo(months) == now - months

isoYearsAgo(years) == now - 12 * years

\* GET /orders.json?created_at_min=min : the store's orders created at or after min
OrdersSince(min) == SelectSeq(store, LAMBDA o : o.created_at >= min)

----------------------------------------------------------------------------
(* src/server.js: aggregateLineItems                                       *)

\* map[id].qty += n
AddQty(map, id, n) == [map EXCEPT ![MapIndex(map, id)].qty = @ + n]

RECURSIVE aggLines(_, _)
aggLines(map, lines) ==
  IF lines = <<>> THEN map
  ELSE
    LET li  == Head(lines)
        vid == OrNum(li.variant_id, li.product_id)
        id  == String(vid)
        new == [key |-> id, num |-> vid, qty |-> 0,
                title |-> OrStr(li.name, OrStr(li.title, ""))]
    IN IF ~Truthy(vid) THEN aggLines(map, Tail(lines))
       ELSE IF ~MapHas(map, id)
            THEN aggLines(AddQty(Append(map, new), id, OrNum(li.quantity, 0)), Tail(lines))
            ELSE aggLines(AddQty(map, id, OrNum(li.quantity, 0)), Tail(lines))

RECURSIVE aggOrders(_, _)
aggOrders(map, orders) ==
  IF orders = <<>> THEN map
  ELSE aggOrders(aggLines(map, Head(orders).line_items), Tail(orders))

aggregateLineItems(orders) == aggOrders(<<>>, orders)

----------------------------------------------------------------------------
(* src/unnamed/part_001: aggregateLineItemsWithSeasonality                 *)

\* map[vid].totalQty += n
AddTotalQty(map, vid, n) == [map EXCEPT ![MapIndex(map, vid)].totalQty = @ + n]

RECURSIVE seasLines(_, _)
seasLines(map, lines) ==
  IF lines = <<>> THEN map
  ELSE
    LET li  == Head(lines)
        num == OrNum(li.variant_id, li.product_id)
        vid == String(num)
        new == [key |-> vid, num |-> num, totalQty |-> 0,
                title |-> OrStr(li.name, OrStr(li.title, ""))]
    IN IF ~MapHas(map, vid)
       THEN seasLines(AddTotalQty(Append(map, new), vid, OrNum(li.quantity, 0)), Tail(lines))
       ELSE seasLines(AddTotalQty(map, vid, OrNum(li.quantity, 0)), Tail(lines))

RECURSIVE recentPass(_, _)
recentPass(map, orders) ==
  IF orders = <<>> THEN map
  ELSE recentPass(seasLines(map, Head(orders).line_items), Tail(orders))

\* (no order is skipped)
SameMonthAlways(o, currentMonth) == TRUE

\* the seasonal loop's test: orders of another month are skipped
SameMonth(o, currentMonth) == GetMonth(o.created_at) = currentMonth

RECURSIVE seasonalPass(_, _, _)
seasonalPass(map, orders, currentMonth) ==
  IF orders = <<>> THEN map
  ELSE IF ~SameMonth(Head(orders), currentMonth)
       THEN seasonalPass(map, Tail(orders), currentMonth)
       ELSE seasonalPass(seasLines(map, Head(orders).line_items), Tail(orders),
                         currentMonth)

aggregateLineItemsWithSeasonality(recent, seasonal) ==
  seasonalPass(recentPass(<<>>, recent), seasonal, GetMonth(now))

----------------------------------------------------------------------------
(* Array.prototype.sort with the comparator (a, b) => b.k - a.k: stable,   *)
(* descending in k                                                         *)

RECURSIVE InsertDescending(_, _)
InsertDescending(sorted, e) ==
  IF sorted = <<>> THEN <<e>>
  ELSE IF e.k > Head(sorted).k THEN <<e>> \o sorted
  ELSE <<Head(sorted)>> \o InsertDescending(Tail(sorted), e)

RECURSIVE SortDescending(_)
SortDescending(seq) ==
  IF seq = <<>> THEN <<>>
  ELSE InsertDescending(SortDescending(SubSeq(seq, 1, Len(seq) - 1)), seq[Len(seq)])

----------------------------------------------------------------------------
(* src/server.js: buildForecastFromAggregates                              *)

\* the forecast quantity of one entry: average, floor rule, clamp
ClampedQty(qty, months) ==
  LET rounded == MathRound(qty, months)
      floored == IF qty > 0 /\ rounded < 1 THEN 1 ELSE rounded
  IN Min(floored, MaxQtyClamp)

buildForecastFromAggregates(map, months, topN) ==
  LET entries == ObjectEntries(map)
      arr == [i \in 1..Len(entries) |->
                [variant_id |-> entries[i].key,
                 qty        |-> ClampedQty(entries[i].qty, months),
                 title      |-> entries[i].title,
                 totalQty   |-> entries[i].qty]]
      keyed  == [i \in 1..Len(arr) |-> [k |-> arr[i].totalQty, v |-> arr[i]]]
      sorted == SortDescending(keyed)
  IN Slice([i \in 1..Len(sorted) |-> sorted[i].v], topN)

----------------------------------------------------------------------------
(* src/unnamed/part_001: buildForecast                                     *)

\* Math.round(avg) > 0 ? Math.round(avg) : 1
FlooredQty(totalQty, recentMonths) ==
  IF MathRound(totalQty, recentMonths) > 0
  THEN MathRound(totalQty, recentMonths) ELSE 1

\* the key the forecast is sorted by
SortKey(item) == item.qty

buildForecast(itemsMap, recentMonths, topN) ==
  LET entries == ObjectEntries(itemsMap)
      forecast == [i \in 1..Len(entries) |->
                     [variant_id |-> entries[i].key,
                      qty        |-> FlooredQty(entries[i].totalQty, recentMonths),
                      title      |-> entries[i].title]]
      keyed  == [i \in 1..Len(forecast) |-> [k |-> SortKey(forecast[i]), v |-> forecast[i]]]
      sorted == SortDescending(keyed)
  IN Slice([i \in 1..Len(sorted) |-> sorted[i].v], topN)

----------------------------------------------------------------------------
(* buildCartUrl (the same in both versions)                                *)

\* items.map(i => `${i.variant_id}:${i.qty}`)
CartParts(items) ==
  [i \in 1..Len(items) |-> items[i].variant_id \o ":" \o Decimal(items[i].qty)]

RECURSIVE Join(_, _)
Join(parts, sep) ==
  IF Len(parts) = 1 THEN parts[1]
  ELSE parts[1] \o sep \o Join(Tail(parts), sep)

buildCartUrl(items) ==
  IF Len(items) = 0 THEN "/cart"
  ELSE "/cart/" \o Join(CartParts(items), ",")

----------------------------------------------------------------------------
(* The two versions behind one name                                        *)

Variants == {"clamp", "seasonal"}

Aggregate(v, recent, seasonal) ==
  IF v = "clamp" THEN aggregateLineItems(recent)
  ELSE aggregateLineItemsWithSeasonality(recent, seasonal)

Forecast(v, map) ==
  IF v = "clamp" THEN buildForecastFromAggregates(map, RecentMonths, TopNClamp)
  ELSE buildForecast(map, RecentMonths, TOP_ITEMS)

\* the accumulated quantity of a map entry
EntryTotal(v, e) == IF v = "clamp" THEN e.qty ELSE e.totalQty

----------------------------------------------------------------------------
(* Inputs                                                                  *)

LineItem(v, p, n, t, q) ==
  [variant_id |-> v, product_id |-> p, name |-> n, title |-> t, quantity |-> q]

\* <<variant_id, product_id>>: neither, the product only, a Shopify-sized
\* variant with a product
IdPairs == {<<Undefined, Undefined>>, <<Undefined, 1>>, <<1001, 1>>}

Quantities == {0, 2}

\* named lines of every identifier pair and quantity; lines of variant 1 (the
\* number of the product above) with no quantity, with no title at all and
\* with a title only; a line of a large quantity
LineItems ==
  {LineItem(ip[1], ip[2], "A", "", q) : ip \in IdPairs, q \in Quantities}
    \cup {LineItem(1, Undefined, "", t, Undefined) : t \in {"", "B"}}
    \cup {LineItem(1001, Undefined, "A", "", 300)}

\* how many months before now an order was created: this month, inside the
\* recent window, the same month a year ago
Ages == {0, 3, 12}

Nows == {31, 36}

OrdersOfSize(k, t) ==
  {[created_at |-> t - a, line_items |-> ls] : a \in Ages, ls \in [1..k -> LineItems]}

\* the stores with at most n line items in all, no order empty
RECURSIVE StoresWith(_, _)
StoresWith(n, t) ==
  IF n = 0 THEN {<<>>}
  ELSE {<<>>} \cup
       UNION {{<<o>> \o s : o \in OrdersOfSize(k, t), s \in StoresWith(n - k, t)} :
              k \in 1..n}

\* one large order of n distinct Shopify-sized variants, quantities 0, 3, .. 12,
\* alone or after an order of the first of them by its product identifier
BulkSizes == {13, 21}

BulkOrder(n, t) ==
  [created_at |-> t,
   line_items |-> [i \in 1..n |->
                     LineItem(4000 + i, Undefined, "P", "", 3 * (i % 5))]]

BulkStores(t) ==
  {<<BulkOrder(n, t)>> : n \in BulkSizes}
    \cup {<<[created_at |-> t,
             line_items |-> <<LineItem(Undefined, 4001, "", "", 2)>>],
            BulkOrder(n, t)>> : n \in BulkSizes}

CoreStores(t) == StoresWith(MaxLineItems, t) \cup BulkStores(t)

\* the stores of the request handler's runs: no order, an order of this
\* month, an order of another month outside the recent window, each with
\* one line item, with or without an identifier
HandlerStores(t) ==
  {<<>>} \cup
  {<<[created_at |-> t - a, line_items |-> <<LineItem(v, Undefined, "A", "", 2)>>]>> :
     a \in {0, 18}, v \in {1, Undefined}}

FailureStatuses == {401, 404, Undefined}

NoFetch == [st |-> "idle", status |-> 0]

NoResponse == [sent |-> FALSE, status |-> 0, kind |-> "none", cartUrl |-> "", items |-> <<>>]

----------------------------------------------------------------------------
(* The forecast pipeline on its own: the orders are already fetched        *)

CoreInit ==
  /\ variant \in Variants
  /\ webhookUrl = FALSE
  /\ now \in Nows
  /\ store \in CoreStores(now)
  /\ req = [customer_id |-> TRUE, email |-> FALSE]
  /\ pc = "aggregate"
  /\ recentFetch = [st |-> "ok", status |-> HttpOk]
  /\ seasonalFetch = IF variant = "seasonal" THEN [st |-> "ok", status |-> HttpOk]
                     ELSE NoFetch
  /\ fetchCalls = IF variant = "seasonal" THEN 2 ELSE 1
  /\ recentOrders = OrdersSince(isoMonthsAgo(RecentMonths))
  /\ seasonalOrders = IF variant = "seasonal" THEN OrdersSince(isoYearsAgo(SeasonalYears))
                      ELSE <<>>
  /\ agg = <<>>
  /\ forecastItems = <<>>
  /\ cartUrl = ""
  /\ webhook = "none"
  /\ warnings = 0
  /\ response = NoResponse

CoreAggregate ==
  /\ pc = "aggregate"
  /\ agg' = Aggregate(variant, recentOrders, seasonalOrders)
  /\ pc' = "forecast"
  /\ UNCHANGED <<variant, webhookUrl, now, store, req, recentFetch, seasonalFetch,
                 fetchCalls, recentOrders, seasonalOrders, forecastItems, cartUrl,
                 webhook, warnings, response>>

CoreForecast ==
  /\ pc = "forecast"
  /\ forecastItems' = Forecast(variant, agg)
  /\ pc' = "cart"
  /\ UNCHANGED <<variant, webhookUrl, now, store, req, recentFetch, seasonalFetch,
                 fetchCalls, recentOrders, seasonalOrders, agg, cartUrl,
                 webhook, warnings, response>>

CoreCart ==
  /\ pc = "cart"
  /\ cartUrl' = buildCartUrl(forecastItems)
  /\ pc' = "built"
  /\ UNCHANGED <<variant, webhookUrl, now, store, req, recentFetch, seasonalFetch,
                 fetchCalls, recentOrders, seasonalOrders, agg, forecastItems,
                 webhook, warnings, response>>

CoreNext == CoreAggregate \/ CoreForecast \/ CoreCart

CoreSpec == CoreInit /\ [][CoreNext]_vars

----------------------------------------------------------------------------
(* POST /forecast                                                          *)

Init ==
  /\ variant \in Variants
  /\ webhookUrl \in BOOLEAN
  /\ now \in Nows
  /\ store \in HandlerStores(now)
  /\ req = [customer_id |-> FALSE, email |-> FALSE]
  /\ pc = "idle"
  /\ recentFetch = NoFetch
  /\ seasonalFetch = NoFetch
  /\ fetchCalls = 0
  /\ recentOrders = <<>>
  /\ seasonalOrders = <<>>
  /\ agg = <<>>
  /\ forecastItems = <<>>
  /\ cartUrl = ""
  /\ webhook = "none"
  /\ warnings = 0
  /\ response = NoResponse

\* res.status(status).json({ error })
ErrorResponse(status) ==
  [sent |-> TRUE, status |-> status, kind |-> "error", cartUrl |-> "", items |-> <<>>]

\* res.json({ cartUrl: "/cart", message })
MessageResponse ==
  [sent |-> TRUE, status |-> HttpOk, kind |-> "message", cartUrl |-> "/cart", items |-> <<>>]

\* res.json({ cartUrl, items })
ForecastResponse(url, items) ==
  [sent |-> TRUE, status |-> HttpOk, kind |-> "forecast", cartUrl |-> url, items |-> items]

\* (the status is dropped: always 500)
ErrStatusAlways500(status) == InternalError

\* err.status || 500
ErrStatus(status) == OrNum(status, InternalError)

\* (the handler goes on as soon as one fetch has resolved)
AnyResolved(v, r, s) == r.st = "ok" \/ s.st = "ok"

\* the fetches the handler awaits: one in server.js, Promise.all of two in part_001
AllResolved(v, r, s) ==
  IF v = "clamp" THEN r.st = "ok" ELSE r.st = "ok" /\ s.st = "ok"

\* the request arrives: validation, then the fetches are issued
Receive(cid, em) ==
  /\ pc = "idle"
  /\ req' = [customer_id |-> cid, email |-> em]
  /\ IF ~cid /\ ~em
     THEN /\ response' = ErrorResponse(BadRequest)
          /\ pc' = "done"
          /\ UNCHANGED <<recentFetch, seasonalFetch, fetchCalls>>
     ELSE /\ recentFetch' = [st |-> "pending", status |-> 0]
          /\ seasonalFetch' = IF variant = "seasonal"
                              THEN [st |-> "pending", status |-> 0] ELSE NoFetch
          /\ fetchCalls' = IF variant = "seasonal" THEN 2 ELSE 1
          /\ pc' = "fetching"
          /\ UNCHANGED response
  /\ UNCHANGED <<variant, webhookUrl, now, store, recentOrders, seasonalOrders,
                 agg, forecastItems, cartUrl, webhook, warnings>>

\* the handler after its await of the orders, up to its next await or its response
HandleOrders(recent, seasonal) ==
  LET empty == IF variant = "clamp" THEN Len(recent) = 0
               ELSE Len(recent) = 0 /\ Len(seasonal) = 0
      a   == Aggregate(variant, recent, seasonal)
      f   == Forecast(variant, a)
      url == buildCartUrl(f)
  IN IF empty
     THEN /\ response' = MessageResponse
          /\ pc' = "done"
          /\ UNCHANGED <<agg, forecastItems, cartUrl, webhook>>
     ELSE IF Len(f) = 0
     THEN /\ response' = MessageResponse
          /\ pc' = "done"
          /\ agg' = a
          /\ forecastItems' = f
          /\ UNCHANGED <<cartUrl, webhook>>
     ELSE /\ agg' = a
          /\ forecastItems' = f
          /\ cartUrl' = url
          /\ IF webhookUrl
             THEN /\ webhook' = "pending"
                  /\ pc' = "forwarding"
                  /\ UNCHANGED response
             ELSE /\ response' = ForecastResponse(url, f)
                  /\ pc' = "done"
                  /\ UNCHANGED webhook

\* a shopifyFetch returns res.ok
FetchResolves(which) ==
  LET r == IF which = "recent" THEN [st |-> "ok", status |-> HttpOk] ELSE recentFetch
      s == IF which = "seasonal" THEN [st |-> "ok", status |-> HttpOk] ELSE seasonalFetch
      ro == IF which = "recent" THEN OrdersSince(isoMonthsAgo(RecentMonths))
            ELSE recentOrders
      so == IF which = "seasonal" THEN OrdersSince(isoYearsAgo(SeasonalYears))
            ELSE seasonalOrders
  IN /\ (IF which = "recent" THEN recentFetch ELSE seasonalFetch).st = "pending"
     /\ recentFetch' = r
     /\ seasonalFetch' = s
     /\ recentOrders' = ro
     /\ seasonalOrders' = so
     /\ IF pc = "fetching" /\ AllResolved(variant, r, s)
        THEN HandleOrders(ro, so)
        ELSE UNCHANGED <<pc, agg, forecastItems, cartUrl, webhook, response>>
     /\ UNCHANGED <<variant, webhookUrl, now, store, req, fetchCalls, warnings>>

\* a shopifyFetch throws: a response that is not ok (err.status is set) or a
\* failure of the call itself (status Undefined); the handler's catch answers
\* unless it has answered already
FetchRejects(which, status) ==
  /\ (IF which = "recent" THEN recentFetch ELSE seasonalFetch).st = "pending"
  /\ recentFetch' = IF which = "recent" THEN [st |-> "failed", status |-> status]
                    ELSE recentFetch
  /\ seasonalFetch' = IF which = "seasonal" THEN [st |-> "failed", status |-> status]
                      ELSE seasonalFetch
  /\ IF pc = "fetching"
     THEN /\ response' = ErrorResponse(ErrStatus(status))
          /\ pc' = "done"
     ELSE UNCHANGED <<pc, response>>
  /\ UNCHANGED <<variant, webhookUrl, now, store, req, fetchCalls, recentOrders,
                 seasonalOrders, agg, forecastItems, cartUrl, webhook, warnings>>

\* the awaited fetch of the webhook settles: "ok" and "httpError" resolve,
\* "rejected" throws and is caught with console.warn; then the response is sent
WebhookOutcomes == {"ok", "httpError", "rejected"}

WebhookSettles(outcome) ==
  /\ pc = "forwarding"
  /\ webhook = "pending"
  /\ webhook' = outcome
  /\ warnings' = IF outcome = "rejected" THEN warnings + 1 ELSE warnings
  /\ response' = ForecastResponse(cartUrl, forecastItems)
  /\ pc' = "done"
  /\ UNCHANGED <<variant, webhookUrl, now, store, req, recentFetch, seasonalFetch,
                 fetchCalls, recentOrders, seasonalOrders, agg, forecastItems,
                 cartUrl>>

Next ==
  \/ \E cid \in BOOLEAN, em \in BOOLEAN : Receive(cid, em)
  \/ \E which \in {"recent", "seasonal"} : FetchResolves(which)
  \/ \E which \in {"recent", "seasonal"}, status \in FailureStatuses :
       FetchRejects(which, status)
  \/ \E outcome \in WebhookOutcomes : WebhookSettles(outcome)

Spec == Init /\ [][Next]_vars

----------------------------------------------------------------------------
(* Vocabulary of the properties                                            *)

\* the pipeline has aggregated / forecast / built the cart path
Aggregated == pc \in {"forecast", "cart", "built"}

Forecasted == pc \in {"cart", "built"}

Built == pc = "built"

TopN(v) == IF v = "clamp" THEN TopNClamp ELSE TOP_ITEMS

\* the line items in the order the aggregator of version v reads them, stated
\* on the fetched orders: every recent order, then (seasonal version) the
\* seasonal orders whose month of the year is the current one
RECURSIVE Flatten(_)
Flatten(orders) ==
  IF orders = <<>> THEN <<>> ELSE Head(orders).line_items \o Flatten(Tail(orders))

InCurrentMonth(o) == (o.created_at % 12) = (now % 12)

Processed ==
  IF variant = "clamp" THEN Flatten(recentOrders)
  ELSE Flatten(recentOrders) \o Flatten(SelectSeq(seasonalOrders, InCurrentMonth))

HasIdentifier(li) ==
  ~(li.variant_id \in {Undefined, 0} /\ li.product_id \in {Undefined, 0})

Identifier(li) == IF li.variant_id \in {Undefined, 0} THEN li.product_id ELSE li.variant_id

QuantityOf(li) == IF li.quantity = Undefined THEN 0 ELSE li.quantity

TitleOf(li) == IF li.name # "" THEN li.name ELSE li.title

RECURSIVE SumQuantities(_, _)
SumQuantities(items, pos) ==
  IF pos = {} THEN 0
  ELSE LET i == CHOOSE i \in pos : TRUE
       IN QuantityOf(items[i]) + SumQuantities(items, pos \ {i})

\* the positions in Processed of the line items of identifier number n
PositionsOf(n) ==
  {i \in 1..Len(Processed) : HasIdentifier(Processed[i]) /\ Identifier(Processed[i]) = n}

ForecastIds == {forecastItems[i].variant_id : i \in 1..Len(forecastItems)}

\* the accumulated quantity behind a forecast item
ItemTotal(item) == EntryTotal(variant, MapGet(agg, item.variant_id))

----------------------------------------------------------------------------
(* C1 - C5, C9, C10: the forecast pipeline (CoreSpec)                      *)

\* C1: every forecast item's quantity is an integer of at least 1 and at most
\* the clamp of 50.
C1_QuantityInRange ==
  Forecasted =>
    \A i \in 1..Len(forecastItems) :
      /\ forecastItems[i].qty \in Int
      /\ forecastItems[i].qty >= 1
      /\ forecastItems[i].qty <= MaxQtyClamp

\* C2: an entry whose accumulated quantity is zero or less is in neither the
\* forecast nor the cart path; an entry whose accumulated quantity is positive
\* is forecast with a quantity of at least 1 (unless the top N cut it).
C2_ZeroTotalExcluded ==
  /\ Forecasted =>
       \A k \in 1..Len(agg) :
         /\ EntryTotal(variant, agg[k]) <= 0 => agg[k].key \notin ForecastIds
         /\ EntryTotal(variant, agg[k]) > 0 =>
              /\ Len(agg) <= TopN(variant) => agg[k].key \in ForecastIds
              /\ \A i \in 1..Len(forecastItems) :
                   forecastItems[i].variant_id = agg[k].key => forecastItems[i].qty >= 1
  /\ (Built /\ \A k \in 1..Len(agg) : EntryTotal(variant, agg[k]) <= 0)
       => cartUrl = "/cart"

\* C3: the forecast is in descending order of accumulated quantity, and no
\* entry cut by the top N has a larger accumulated quantity than one kept.
C3_SortedByTotal ==
  Forecasted =>
    /\ \A i \in 1..Len(forecastItems), j \in 1..Len(forecastItems) :
         i < j => ItemTotal(forecastItems[i]) >= ItemTotal(forecastItems[j])
    /\ \A k \in 1..Len(agg), i \in 1..Len(forecastItems) :
         agg[k].key \notin ForecastIds
           => EntryTotal(variant, agg[k]) <= ItemTotal(forecastItems[i])

\* C4: the forecast has at most top-N items (12 clamping, 20 two-window) and
\* no two of them have the same identifier.
C4_BoundedNoDuplicates ==
  Forecasted =>
    /\ Len(forecastItems) <= TopN(variant)
    /\ \A i \in 1..Len(forecastItems), j \in 1..Len(forecastItems) :
         i # j => forecastItems[i].variant_id # forecastItems[j].variant_id

\* C4's case: more than 20 distinct identifiers, one of them met once as a
\* product identifier and once as the equal variant identifier; 20 are kept.
C4_Witness ==
  /\ variant = "seasonal"
  /\ Forecasted
  /\ Len(agg) > TOP_ITEMS
  /\ Len(forecastItems) = TOP_ITEMS
  /\ \E i \in 1..Len(Processed), j \in 1..Len(Processed) :
       /\ Processed[i].variant_id = Undefined
       /\ Processed[i].product_id = Processed[j].variant_id

\* C5: after aggregation each identifier's total is the sum of its quantities
\* over all recent orders plus the sum over the seasonal orders of the current
\* month of the year, and only identifiers met there have an entry.
C5_TotalIsSum ==
  (variant = "seasonal" /\ Aggregated) =>
    /\ \A k \in 1..Len(agg) :
         agg[k].num # Undefined =>
           /\ PositionsOf(agg[k].num) # {}
           /\ agg[k].totalQty = SumQuantities(Processed, PositionsOf(agg[k].num))
    /\ \A i \in 1..Len(Processed) :
         HasIdentifier(Processed[i]) =>
           \E k \in 1..Len(agg) : agg[k].num = Identifier(Processed[i])

\* C5's case: one order of the current month, fetched in both windows, with
\* one line of quantity 2: its identifier's total is 4.
C5_Witness ==
  /\ variant = "seasonal"
  /\ Aggregated
  /\ Len(recentOrders) = 1
  /\ seasonalOrders = recentOrders
  /\ InCurrentMonth(recentOrders[1])
  /\ Len(recentOrders[1].line_items) = 1
  /\ recentOrders[1].line_items[1].quantity = 2
  /\ Len(agg) = 1
  /\ agg[1].totalQty = 4

\* C9: a line item with neither a variant nor a product identifier creates no
\* entry, adds to no total and yields no forecast item and no cart segment:
\* every entry is the entry of an identified line item, totals count
\* identified lines only, and a forecast without identified lines is empty.
C9_UnidentifiedSkipped ==
  /\ Aggregated =>
       \A k \in 1..Len(agg) :
         /\ agg[k].num # Undefined
         /\ EntryTotal(variant, agg[k]) = SumQuantities(Processed, PositionsOf(agg[k].num))
  /\ (Forecasted /\ \A i \in 1..Len(Processed) : ~HasIdentifier(Processed[i]))
       => forecastItems = <<>>
  /\ (Built /\ \A i \in 1..Len(Processed) : ~HasIdentifier(Processed[i]))
       => cartUrl = "/cart"

\* the first title that is not empty among the line items of identifier n, in
\* processing order; "" when there is none
FirstNonEmptyTitle(n) ==
  LET titled == {i \in PositionsOf(n) : TitleOf(Processed[i]) # ""}
  IN IF titled = {} THEN ""
     ELSE TitleOf(Processed[CHOOSE i \in titled : \A j \in titled : i <= j])

\* C10: an entry's title is the first non-empty title seen for its identifier
\* in processing order, also when a line with an empty title came first.
C10_FirstNonEmptyTitle ==
  Aggregated =>
    \A k \in 1..Len(agg) :
      agg[k].num # Undefined => agg[k].title = FirstNonEmptyTitle(agg[k].num)

----------------------------------------------------------------------------
(* C6 - C8: the request handler (Spec)                                     *)

\* C6: with a webhook configured, the response is sent without waiting for
\* the webhook call: while the call is in flight the response is already out;
\* a call that failed is logged and the response is the forecast all the same.
C6_WebhookNeverDelays ==
  /\ webhook = "pending" => response.sent
  /\ webhook \in {"httpError", "rejected"} =>
       /\ warnings >= 1
       /\ response.kind = "forecast"

\* the status the caller is to see for a fetch that failed with status s
StatusFor(s) == IF s = Undefined THEN InternalError ELSE s

\* the fetches the request issued
Issued == IF variant = "seasonal" THEN {"recent", "seasonal"} ELSE {"recent"}

FetchOf(which) == IF which = "recent" THEN recentFetch ELSE seasonalFetch

Failed == {which \in Issued : FetchOf(which).st = "failed"}

\* C7 as stated: whichever fetch failed with status S, the response is an
\* error of status S (500 without a status), with no retry and no success body.
C7_StatusOfEveryFailure ==
  \A which \in Failed :
    /\ response.sent
    /\ response.kind = "error"
    /\ response.status = StatusFor(FetchOf(which).status)
    /\ fetchCalls = Cardinality(Issued)

\* C7 amended: the response to a failed fetch is an error carrying the status
\* of the first fetch to fail (500 when that failure has no status); a fetch
\* that fails after the response changes nothing; no fetch is issued again.
C7_StatusOfFirstFailure ==
  /\ [](Failed # {} =>
          /\ response.sent
          /\ response.kind = "error"
          /\ response.status \in {StatusFor(FetchOf(which).status) : which \in Failed}
          /\ fetchCalls = Cardinality(Issued))
  /\ [][/\ \A which \in Issued :
             (pc = "fetching" /\ FetchOf(which).st = "pending"
                /\ (IF which = "recent" THEN recentFetch' ELSE seasonalFetch').st = "failed")
               => /\ response'.kind = "error"
                  /\ response'.status =
                       StatusFor((IF which = "recent" THEN recentFetch'
                                  ELSE seasonalFetch').status)
        /\ response.sent => response' = response
        /\ pc # "idle" => fetchCalls' = fetchCalls]_vars

\* C7's case: both fetches failed, the recent one with 401, the seasonal one
\* with 404, and the response carries one of the two statuses.
C7_Witness ==
  /\ variant = "seasonal"
  /\ recentFetch.st = "failed" /\ recentFetch.status = 401
  /\ seasonalFetch.st = "failed" /\ seasonalFetch.status = 404
  /\ response.kind = "error"
  /\ response.status = 404

\* C8: whatever was aggregated, forecast, forwarded or returned, every fetch
\* of the request had completed successfully before: nothing is computed from
\* one fetch while the other is pending or has failed.
C8_JoinBeforeAggregate ==
  (\/ agg # <<>>
   \/ forecastItems # <<>>
   \/ webhook # "none"
   \/ response.kind \in {"message", "forecast"})
    => \A which \in Issued : FetchOf(which).st = "ok"

\* C8's case: the two-window version returned a forecast of orders from both
\* fetches.
C8_Witness ==
  /\ variant = "seasonal"
  /\ recentFetch.st = "ok" /\ seasonalFetch.st = "ok"
  /\ Len(recentOrders) > 0 /\ Len(seasonalOrders) > 0
  /\ agg # <<>>
  /\ response.kind = "forecast"

====
